---- MODULE Spec2Model ----
(***************************************************************************)
(* Automatic two-agent chat (jido-mondo).  Three variants of one script:   *)
(*   "part_000"  configurable turn cap, trimmed role-annotated history     *)
(*   "part_001"  fixed turn cap, full role-annotated history               *)
(*   "main"      fixed turn cap, prompt-based history, timer-started       *)
(* Texts (message bodies, system prompts, placeholders) are sequences of   *)
(* tokens; a template string is the concatenation of its pieces.           *)
(***************************************************************************)
EXTENDS Integers, Sequences, FiniteSets, TLC

\* ---- bounds of the model -------------------------------------------------
MaxSeed == 2
MaxTurns == 3
MaxWindow == 3
MaxFaults == 1
MaxTrial == 3

\* ---- program constants ---------------------------------------------------
MAX_TURNS == 10
DefaultMaxTurns == 20
DefaultChatMaxLength == 20
DefaultHost == "http://localhost:11434"
DefaultModel == "llama2"

Variants == {"part_000", "part_001", "main"}

\* ---- JavaScript values ---------------------------------------------------
Undefined == [t |-> "undefined"]
Null == [t |-> "null"]
JStr(s) == [t |-> "string", v |-> s]
JText(s) == [t |-> "text", v |-> s]
JNum(n) == [t |-> "number", v |-> n]
JArr(a) == [t |-> "array", v |-> a]
JObj == [t |-> "object"]

Nullish(x) == x.t \in {"undefined", "null"}

Truthy(x) ==
    CASE x.t \in {"undefined", "null"} -> FALSE
      [] x.t = "string" -> x.v # ""
      [] x.t = "text" -> x.v # <<>>
      [] x.t = "number" -> x.v # 0
      [] OTHER -> TRUE

\* a || b
OrElse(a, b) == IF Truthy(a) THEN a ELSE b
\* a ?? b
Coalesce(a, b) == IF Nullish(a) THEN b ELSE a

IsArray(x) == x.t = "array"

\* Array.prototype.slice(start) on a sequence (0-based start)
slice(a, start) ==
    LET from == IF start < 0
                THEN (IF Len(a) + start < 0 THEN 0 ELSE Len(a) + start)
                ELSE start
    IN IF from >= Len(a) THEN <<>> ELSE SubSeq(a, from + 1, Len(a))

\* String.prototype.trim on a token sequence
WhiteSpace == {" ", "\n", "\t"}

RECURSIVE trimStart(_)
trimStart(s) ==
    IF s # <<>> /\ Head(s) \in WhiteSpace THEN trimStart(Tail(s)) ELSE s

RECURSIVE trimEnd(_)
trimEnd(s) ==
    IF s # <<>> /\ s[Len(s)] \in WhiteSpace
    THEN trimEnd(SubSeq(s, 1, Len(s) - 1))
    ELSE s

trim(s) == trimEnd(trimStart(s))

\* String.prototype.includes on token sequences
includes(s, sub) ==
    \E i \in 0..(Len(s) - Len(sub)) : SubSeq(s, i + 1, i + Len(sub)) = sub

\* ---- the settings file ---------------------------------------------------
SettingsKeys ==
    {"agent1Name", "agent2Name", "agent1System", "agent2System",
     "initialMessages", "ollamaHost", "ollamaModel", "ollamaKeepAlive",
     "maxTurns", "chatMaxLength", "temperature", "repeatPenalty"}

\* every `let` global before the try block assigns it
NoGlobals == [k \in SettingsKeys |-> Undefined]

Speakers == {"Ann", "Bob", "Op"}

\* initial messages: the i-th entry carries the text "seed i"; the last two
\* entries are by any speaker, the earlier ones by the operator
SeedSpeakers(n) ==
    { f \in [1..n -> Speakers] : \A i \in 1..(n - 2) : f[i] = "Op" }

SeedLists ==
    UNION { { [i \in 1..n |-> [name |-> f[i], message |-> <<"seed", ToString(i)>>]]
              : f \in SeedSpeakers(n) } : n \in 1..MaxSeed }

SystemPairs ==
    { <<Undefined, JText(<<"S2">>)>>, <<JText(<<"S1">>), JText(<<>>)>> }

DistinctNames == <<JStr("Ann"), JStr("Bob")>>
SameNames == <<JStr("Ann"), JStr("Ann")>>

\* host, model, keep-alive, temperature, repeat penalty
NoGateway == <<Undefined, Undefined, Undefined, Undefined, Undefined>>
CustomGateway == <<JStr("http://h:1"), JStr("m1"), JNum(5), JNum(0), Null>>
PenaltyGateway == <<Undefined, JStr(""), Null, Null, JNum(2)>>
TunedGateway == <<Undefined, Undefined, Undefined, JNum(1), JNum(2)>>
CustomGateways == {CustomGateway, PenaltyGateway, TunedGateway}

MkSettings(names, systems, seeds, gw, turns, window) ==
    [agent1Name |-> names[1], agent2Name |-> names[2],
     agent1System |-> systems[1], agent2System |-> systems[2],
     initialMessages |-> seeds,
     ollamaHost |-> gw[1], ollamaModel |-> gw[2], ollamaKeepAlive |-> gw[3],
     maxTurns |-> turns, chatMaxLength |-> window,
     temperature |-> gw[4], repeatPenalty |-> gw[5]]

TurnCaps(v) == IF v = "part_000" THEN {JNum(t) : t \in 1..MaxTurns} ELSE {Undefined}

WindowSizes(v) ==
    IF v = "part_000" THEN {JNum(k) : k \in 1..MaxWindow} ELSE {Undefined}

\* settings that pass validation: distinct names with every system prompt and
\* window size; equal names, and in part_000 a customised gateway, with the
\* default window
CompleteSettings(v) ==
    { MkSettings(DistinctNames, s, JArr(m), NoGateway, t, w) :
        s \in SystemPairs, m \in SeedLists, t \in TurnCaps(v), w \in WindowSizes(v) }
    \cup { MkSettings(SameNames, <<JText(<<"S1">>), JText(<<>>)>>, JArr(m),
                      NoGateway, t, Undefined) :
             m \in {x \in SeedLists : v = "part_000" \/ Len(x) = 1}, t \in TurnCaps(v) }
    \cup { MkSettings(DistinctNames, <<Undefined, JText(<<"S2">>)>>, JArr(m),
                      gw, t, Undefined) :
             m \in {x \in SeedLists : v = "part_000" /\ Len(x) = 1}, t \in TurnCaps(v),
             gw \in CustomGateways }

BaseSettings(v) ==
    MkSettings(<<JStr("Ann"), JStr("Bob")>>, <<Undefined, JText(<<"S2">>)>>,
               JArr(<<[name |-> "Ann", message |-> <<"seed", "1">>]>>),
               NoGateway, IF v = "part_000" THEN JNum(1) ELSE Undefined, Undefined)

\* settings that lack a required property
IncompleteSettings(v) ==
    { [BaseSettings(v) EXCEPT !.agent1Name = x] : x \in {Undefined, JStr("")} }
    \cup { [BaseSettings(v) EXCEPT !.agent2Name = x] : x \in {Undefined, Null} }
    \cup { [BaseSettings(v) EXCEPT !.initialMessages = x] :
             x \in {Undefined, JObj, JStr("hi"), JArr(<<>>)} }
    \cup { [BaseSettings(v) EXCEPT !.agent1Name = Undefined, !.agent2Name = Undefined,
                                   !.initialMessages = JArr(<<>>)] }

\* what readFileSync + JSON.parse produce: an exception or a value
Files(v) ==
    { [kind |-> k, settings |-> NoGlobals] : k \in {"ENOENT", "SyntaxError", "null"} }
    \cup { [kind |-> "object", settings |-> s] :
             s \in CompleteSettings(v) \cup IncompleteSettings(v) }

VARIABLES
    variant,      \* which script runs
    file,         \* the settings file given on the command line
    pc,           \* position of the top-level script
    g,            \* the module-level settings variables
    chatHistory,  \* the transcript
    turnCount,
    isChatting,   \* main.mjs only
    timers,       \* pending setTimeout callbacks: the agent index each will pass
    inflight,     \* suspended autoChat frames awaiting client.chat
    sent,         \* every client.chat request issued so far
    answer,       \* how the latest client.chat call settled
    console,      \* diagnostics written so far
    trial         \* trimChatHistory applied on its own to a drawn history

vars == <<variant, file, pc, g, chatHistory, turnCount, isChatting, timers,
          inflight, sent, answer, console, trial>>

NoAnswer == [kind |-> "none"]
NoTrial == [history |-> <<>>, maxLength |-> 0, results |-> <<>>]

Init ==
    /\ variant \in Variants
    /\ file \in Files(variant)
    /\ pc = "Load"
    /\ g = NoGlobals
    /\ chatHistory = <<>>
    /\ turnCount = 0
    /\ isChatting = FALSE
    /\ timers = <<>>
    /\ inflight = <<>>
    /\ sent = <<>>
    /\ answer = NoAnswer
    /\ console = <<>>
    /\ trial = NoTrial

\* ---- loading and validation ---------------------------------------------
\* the assignments of the try block
LoadedGlobals(v, s) ==
    [agent1Name |-> s.agent1Name,
     agent2Name |-> s.agent2Name,
     agent1System |-> OrElse(s.agent1System, JText(<<>>)),
     agent2System |-> OrElse(s.agent2System, JText(<<>>)),
     initialMessages |-> s.initialMessages,
     ollamaHost |-> OrElse(s.ollamaHost, JStr(DefaultHost)),
     ollamaModel |-> OrElse(s.ollamaModel, JStr(DefaultModel)),
     ollamaKeepAlive |-> Coalesce(s.ollamaKeepAlive, Undefined),
     maxTurns |-> IF v = "part_000"
                  THEN OrElse(s.maxTurns, JNum(DefaultMaxTurns)) ELSE Undefined,
     chatMaxLength |-> IF v = "part_000"
                       THEN OrElse(s.chatMaxLength, JNum(DefaultChatMaxLength))
                       ELSE Undefined,
     temperature |-> IF v = "part_000"
                     THEN Coalesce(s.temperature, Undefined) ELSE Undefined,
     repeatPenalty |-> IF v = "part_000"
                       THEN Coalesce(s.repeatPenalty, Undefined) ELSE Undefined]

LoadSettings ==
    /\ pc = "Load"
    /\ IF file.kind = "object"
       THEN /\ g' = LoadedGlobals(variant, file.settings)
            /\ pc' = "Validate"
            /\ console' = console
       ELSE /\ g' = g
            /\ pc' = "Exit"
            /\ console' = Append(console, "LoadError")
    /\ UNCHANGED <<variant, file, chatHistory, turnCount, isChatting, timers,
                   inflight, sent, answer, trial>>

\* mutant: an empty list of initial messages is accepted
SettingsIncompleteNoLength(gl) ==
    \/ ~Truthy(gl.agent1Name)
    \/ ~Truthy(gl.agent2Name)
    \/ ~IsArray(gl.initialMessages)

SettingsIncomplete(gl) ==
    \/ ~Truthy(gl.agent1Name)
    \/ ~Truthy(gl.agent2Name)
    \/ ~IsArray(gl.initialMessages)
    \/ Len(gl.initialMessages.v) = 0

ValidateSettings ==
    /\ pc = "Validate"
    /\ IF SettingsIncomplete(g)
       THEN /\ pc' = "Exit"
            /\ console' = Append(console, "SettingsIncomplete")
       ELSE /\ pc' = "Start"
            /\ console' = console
    /\ UNCHANGED <<variant, file, g, chatHistory, turnCount, isChatting, timers,
                   inflight, sent, answer, trial>>

\* ---- context window and request -----------------------------------------
\* mutant: keeps the oldest entries instead of the newest
trimChatHistoryOldest(history, maxLength) ==
    IF Len(history) <= maxLength
    THEN history
    ELSE SubSeq(history, 1, maxLength)

\* mutant: cuts one entry too many
trimChatHistoryShort(history, maxLength) ==
    IF Len(history) < maxLength
    THEN history
    ELSE slice(history, Len(history) - maxLength + 1)

\* mutant: counts the kept entries from the end with a negative index
trimChatHistoryFromEnd(history, maxLength) ==
    IF Len(history) <= maxLength
    THEN history
    ELSE slice(history, 0 - maxLength)

trimChatHistory(history, maxLength) ==
    IF Len(history) <= maxLength
    THEN history
    ELSE slice(history, Len(history) - maxLength)

\* mutant: every entry by either agent is an assistant message
roleOfAnyAgent(v, gl, msg, currentAgent) ==
    IF msg.name = gl.agent1Name.v \/ msg.name = gl.agent2Name.v
    THEN "assistant" ELSE "user"

\* the role given to one history entry
roleOf(v, gl, msg, currentAgent) ==
    IF v = "main"
    THEN (IF msg.name = gl.agent1Name.v \/ msg.name = gl.agent2Name.v
          THEN "assistant" ELSE "user")
    ELSE (IF msg.name = currentAgent THEN "assistant" ELSE "user")

\* mutant: the system message does not take a slot of the window
windowOfNoSlot(v, gl, history, systemPrompt) ==
    IF v = "part_000"
    THEN trimChatHistory(history, gl.chatMaxLength.v)
    ELSE history

\* the history entries that go into the request
windowOf(v, gl, history, systemPrompt) ==
    IF v = "part_000"
    THEN trimChatHistory(history,
                         gl.chatMaxLength.v - (IF systemPrompt # <<>> THEN 1 ELSE 0))
    ELSE history

\* main.mjs: the prompt built from the last entry
promptForAgent(history, currentAgent) ==
    LET lastMessage == IF Len(history) > 0 THEN history[Len(history)].message ELSE <<>>
        lastSender == IF Len(history) > 0 THEN history[Len(history)].name ELSE ""
    IN <<lastSender, " just said: \"">> \o lastMessage
       \o <<"\".\n\n", currentAgent, ", what is your response?">>

buildMessages(v, gl, history, currentAgent, systemPrompt) ==
    LET system == IF systemPrompt # <<>>
                  THEN <<[role |-> "system", content |-> systemPrompt]>>
                  ELSE <<>>
        window == windowOf(v, gl, history, systemPrompt)
        annotated == [i \in 1..Len(window) |->
                        [role |-> roleOf(v, gl, window[i], currentAgent),
                         content |-> window[i].message]]
        last == IF v = "main"
                THEN <<[role |-> "user",
                        content |-> promptForAgent(history, currentAgent)]>>
                ELSE <<>>
    IN system \o annotated \o last

\* mutant: a setting is passed on only when it is truthy
buildOptionsTruthy(gl) ==
    LET keys == (IF Truthy(gl.temperature) THEN {"temperature"} ELSE {})
                \cup (IF Truthy(gl.repeatPenalty) THEN {"repeat_penalty"} ELSE {})
    IN [k \in keys |-> IF k = "temperature" THEN gl.temperature ELSE gl.repeatPenalty]

\* the options object of part_000: a key is present iff its setting is defined
buildOptions(gl) ==
    LET keys == (IF gl.temperature # Undefined THEN {"temperature"} ELSE {})
                \cup (IF gl.repeatPenalty # Undefined THEN {"repeat_penalty"} ELSE {})
    IN [k \in keys |-> IF k = "temperature" THEN gl.temperature ELSE gl.repeatPenalty]

chatRequest(v, gl, history, currentAgent, systemPrompt) ==
    [model |-> gl.ollamaModel.v,
     keep_alive |-> gl.ollamaKeepAlive,
     messages |-> buildMessages(v, gl, history, currentAgent, systemPrompt),
     options |-> IF v = "part_000" THEN buildOptions(gl) ELSE Undefined]

\* ---- what the backend can answer -----------------------------------------
PlainContent == <<"ok">>
PaddedContent == <<" ", "ok", "\n">>
BlankContent == <<" ", "\n">>

ChatResponse(content) ==
    [t |-> "object", message |-> [t |-> "object", content |-> content]]

Responses ==
    { ChatResponse(JText(PlainContent)), ChatResponse(JText(PaddedContent)),
      ChatResponse(JText(BlankContent)),
      ChatResponse(Undefined), ChatResponse(Null),
      [t |-> "object", message |-> Undefined], Undefined }

NotFoundMessage(gl) == <<"pull ", gl.ollamaModel.v, ": file does not exist">>

Errors(gl) ==
    { [code |-> JStr("ECONNREFUSED"), message |-> JText(<<"connect ECONNREFUSED">>)],
      [code |-> JStr("ECONNREFUSED"), message |-> JText(NotFoundMessage(gl))],
      [code |-> Undefined, message |-> JText(<<"model error: ">> \o NotFoundMessage(gl))],
      [code |-> Undefined, message |-> JText(<<"boom">>)],
      [code |-> Undefined, message |-> Undefined] }

PlainOutcome == [kind |-> "response", response |-> ChatResponse(JText(PlainContent))]

Outcomes(gl) ==
    { [kind |-> "response", response |-> r] : r \in Responses }
    \cup { [kind |-> "error", error |-> e] : e \in Errors(gl) }

\* ---- result extraction ---------------------------------------------------
NoContentText == <<"No valid content received from the Ollama model.">>

ConnectionRefusedText(gl) ==
    <<"(Error: Could not connect to Ollama server at ", gl.ollamaHost.v,
      ". Is Ollama running?)">>

ModelNotFoundText(gl) ==
    <<"(Error: Ollama model '", gl.ollamaModel.v, "' not found. Did you run 'ollama run ",
      gl.ollamaModel.v, "'?)">>

GenericErrorText(error) ==
    <<"(Error: Could not generate response - ">>
    \o (IF error.message = Undefined THEN <<"undefined">> ELSE error.message.v)
    \o <<")">>

\* response?.message?.content
contentOf(response) ==
    IF Nullish(response) THEN Undefined
    ELSE IF Nullish(response.message) THEN Undefined
    ELSE response.message.content

\* mutant: an empty text is replaced by the fallback string too
extractTextOrElse(v, response) ==
    LET content == contentOf(response)
        text == IF Nullish(content) THEN <<>>
                ELSE IF v = "part_000" THEN trim(content.v) ELSE content.v
    IN IF text = <<>> THEN NoContentText ELSE text

\* the return statement of the try block
extractText(v, response) ==
    LET content == contentOf(response)
    IN IF Nullish(content) THEN NoContentText
       ELSE IF v = "part_000" THEN trim(content.v) ELSE content.v

\* mutant: the message is looked at before the code
errorTextMessageFirst(gl, error) ==
    IF error.message # Undefined /\ includes(error.message.v, NotFoundMessage(gl))
    THEN ModelNotFoundText(gl)
    ELSE IF error.code = JStr("ECONNREFUSED") THEN ConnectionRefusedText(gl)
         ELSE GenericErrorText(error)

\* the catch block
errorText(gl, error) ==
    IF error.code = JStr("ECONNREFUSED") THEN ConnectionRefusedText(gl)
    ELSE IF error.message # Undefined /\ includes(error.message.v, NotFoundMessage(gl))
         THEN ModelNotFoundText(gl)
         ELSE GenericErrorText(error)

\* what sendMessageToAgent resolves to
responseText(v, gl, outcome) ==
    IF outcome.kind = "response"
    THEN extractText(v, outcome.response)
    ELSE errorText(gl, outcome.error)

\* ---- the scheduler -------------------------------------------------------
\* the program state the handlers read and write
State ==
    [chatHistory |-> chatHistory, turnCount |-> turnCount, isChatting |-> isChatting,
     timers |-> timers, inflight |-> inflight, sent |-> sent, answer |-> answer,
     console |-> console]

Become(s) ==
    /\ chatHistory' = s.chatHistory
    /\ turnCount' = s.turnCount
    /\ isChatting' = s.isChatting
    /\ timers' = s.timers
    /\ inflight' = s.inflight
    /\ sent' = s.sent
    /\ answer' = s.answer
    /\ console' = s.console

\* MAX_TURNS
turnLimit(v, gl) == IF v = "part_000" THEN gl.maxTurns.v ELSE MAX_TURNS

agentName(gl, index) == IF index = 1 THEN gl.agent1Name.v ELSE gl.agent2Name.v

agentSystem(gl, index) == IF index = 1 THEN gl.agent1System.v ELSE gl.agent2System.v

\* mutant: the same agent is asked again
otherIndexSame(currentAgentIndex) == currentAgentIndex

\* the index handed to the next autoChat
otherIndex(currentAgentIndex) == IF currentAgentIndex = 1 THEN 2 ELSE 1

\* mutant: off by one in the turn limit
chatOverLate(v, gl, s) ==
    \/ v = "main" /\ ~s.isChatting
    \/ s.turnCount > turnLimit(v, gl)

\* the guard at the top of autoChat
chatOver(v, gl, s) ==
    \/ v = "main" /\ ~s.isChatting
    \/ s.turnCount >= turnLimit(v, gl)

\* mutant: the next call is scheduled before the answer has come
autoChatEager(v, gl, s, currentAgentIndex) ==
    IF chatOver(v, gl, s)
    THEN [s EXCEPT !.console = Append(@, "Finished"),
                   !.isChatting = FALSE]
    ELSE LET currentAgent == agentName(gl, currentAgentIndex)
             frame == [turn |-> s.turnCount + 1,
                       currentAgentIndex |-> currentAgentIndex,
                       currentAgent |-> currentAgent,
                       request |-> chatRequest(v, gl, s.chatHistory, currentAgent,
                                               agentSystem(gl, currentAgentIndex))]
         IN [s EXCEPT !.turnCount = @ + 1,
                      !.inflight = Append(@, frame),
                      !.sent = Append(@, frame),
                      !.timers = Append(@, otherIndex(currentAgentIndex))]

\* mutant: the turn is not counted
autoChatNoCount(v, gl, s, currentAgentIndex) ==
    IF chatOver(v, gl, s)
    THEN [s EXCEPT !.console = Append(@, "Finished"),
                   !.isChatting = FALSE]
    ELSE LET currentAgent == agentName(gl, currentAgentIndex)
             frame == [turn |-> s.turnCount + 1,
                       currentAgentIndex |-> currentAgentIndex,
                       currentAgent |-> currentAgent,
                       request |-> chatRequest(v, gl, s.chatHistory, currentAgent,
                                               agentSystem(gl, currentAgentIndex))]
         IN [s EXCEPT !.inflight = Append(@, frame),
                      !.sent = Append(@, frame)]

\* mutant: the transcript is replaced by the window that was sent
autoChatKeepsWindow(v, gl, s, currentAgentIndex) ==
    IF chatOver(v, gl, s)
    THEN [s EXCEPT !.console = Append(@, "Finished"),
                   !.isChatting = FALSE]
    ELSE LET currentAgent == agentName(gl, currentAgentIndex)
             frame == [turn |-> s.turnCount + 1,
                       currentAgentIndex |-> currentAgentIndex,
                       currentAgent |-> currentAgent,
                       request |-> chatRequest(v, gl, s.chatHistory, currentAgent,
                                               agentSystem(gl, currentAgentIndex))]
         IN [s EXCEPT !.turnCount = @ + 1,
                      !.chatHistory = windowOf(v, gl, @, agentSystem(gl, currentAgentIndex)),
                      !.inflight = Append(@, frame),
                      !.sent = Append(@, frame)]

\* autoChat up to its await: either finish, or count the turn and issue the request
autoChat(v, gl, s, currentAgentIndex) ==
    IF chatOver(v, gl, s)
    THEN [s EXCEPT !.console = Append(@, "Finished"),
                   !.isChatting = FALSE]
    ELSE LET currentAgent == agentName(gl, currentAgentIndex)
             frame == [turn |-> s.turnCount + 1,
                       currentAgentIndex |-> currentAgentIndex,
                       currentAgent |-> currentAgent,
                       request |-> chatRequest(v, gl, s.chatHistory, currentAgent,
                                               agentSystem(gl, currentAgentIndex))]
         IN [s EXCEPT !.turnCount = @ + 1,
                      !.inflight = Append(@, frame),
                      !.sent = Append(@, frame)]

RemoveAt(q, i) == SubSeq(q, 1, i - 1) \o SubSeq(q, i + 1, Len(q))

\* mutant: a failed call is issued again for the same turn
resumeChatRetry(v, gl, s, i, outcome) ==
    LET frame == s.inflight[i]
        text == responseText(v, gl, outcome)
    IN IF outcome.kind = "error"
       THEN [s EXCEPT !.answer = outcome,
                      !.console = Append(@, "ApiError"),
                      !.sent = Append(@, frame)]
       ELSE [s EXCEPT !.answer = outcome,
                      !.chatHistory = Append(@, [name |-> frame.currentAgent,
                                                 message |-> text]),
                      !.inflight = RemoveAt(@, i),
                      !.timers = Append(@, otherIndex(frame.currentAgentIndex))]

\* mutant: the entry is appended but the other agent is never called
resumeChatNoTimer(v, gl, s, i, outcome) ==
    LET frame == s.inflight[i]
        text == responseText(v, gl, outcome)
    IN [s EXCEPT !.answer = outcome,
                 !.console = IF outcome.kind = "error" THEN Append(@, "ApiError") ELSE @,
                 !.chatHistory = Append(@, [name |-> frame.currentAgent, message |-> text]),
                 !.inflight = RemoveAt(@, i)]

\* mutant: a failed call ends the turn without an entry and without a next call
resumeChatAbort(v, gl, s, i, outcome) ==
    LET frame == s.inflight[i]
        text == responseText(v, gl, outcome)
    IN IF outcome.kind = "error"
       THEN [s EXCEPT !.answer = outcome,
                      !.console = Append(@, "ApiError"),
                      !.inflight = RemoveAt(@, i)]
       ELSE [s EXCEPT !.answer = outcome,
                      !.chatHistory = Append(@, [name |-> frame.currentAgent,
                                                 message |-> text]),
                      !.inflight = RemoveAt(@, i),
                      !.timers = Append(@, otherIndex(frame.currentAgentIndex))]

\* autoChat after its await: append the entry and schedule the other agent
resumeChat(v, gl, s, i, outcome) ==
    LET frame == s.inflight[i]
        text == responseText(v, gl, outcome)
    IN [s EXCEPT !.answer = outcome,
                 !.console = IF outcome.kind = "error" THEN Append(@, "ApiError") ELSE @,
                 !.chatHistory = Append(@, [name |-> frame.currentAgent, message |-> text]),
                 !.inflight = RemoveAt(@, i),
                 !.timers = Append(@, otherIndex(frame.currentAgentIndex))]

\* mutant: agent 1 always starts
firstAgentIndexOne(gl, lastSenderName) == 1

\* mutant: the agent that spoke last speaks again
firstAgentIndexSwapped(gl, lastSenderName) ==
    IF lastSenderName = gl.agent1Name.v THEN 1
    ELSE IF lastSenderName = gl.agent2Name.v THEN 2
    ELSE 1

\* who speaks first
firstAgentIndex(gl, lastSenderName) ==
    IF lastSenderName = gl.agent1Name.v THEN 2
    ELSE IF lastSenderName = gl.agent2Name.v THEN 1
    ELSE 1

\* mutant: only agent 1's name is looked for
fallbackStartFirstOnly(gl, lastSenderName) ==
    lastSenderName # gl.agent1Name.v

\* the else branch, which tells that agent 1 starts by default
fallbackStart(gl, lastSenderName) ==
    lastSenderName # gl.agent1Name.v /\ lastSenderName # gl.agent2Name.v

\* the rest of the top-level script: seed the transcript, pick the first agent, start
startChat(v, gl, s) ==
    LET seeded == [s EXCEPT !.chatHistory = gl.initialMessages.v,
                            !.turnCount = 0,
                            !.isChatting = (v = "main")]
        lastSenderName == seeded.chatHistory[Len(seeded.chatHistory)].name
        nextAgentIndex == firstAgentIndex(gl, lastSenderName)
        told == IF fallbackStart(gl, lastSenderName)
                THEN [seeded EXCEPT !.console = Append(@, "Fallback")]
                ELSE seeded
    IN IF v = "main"
       THEN [told EXCEPT !.timers = Append(@, nextAgentIndex)]
       ELSE autoChat(v, gl, told, nextAgentIndex)

Start ==
    /\ pc = "Start"
    /\ pc' = "Run"
    /\ Become(startChat(variant, g, State))
    /\ UNCHANGED <<variant, file, g, trial>>

\* a setTimeout callback runs autoChat
TimerFires ==
    /\ pc = "Run"
    /\ timers # <<>>
    /\ Become(autoChat(variant, g, [State EXCEPT !.timers = Tail(@)], Head(timers)))
    /\ UNCHANGED <<variant, file, pc, g, trial>>

\* number of turns so far whose text is not the plain reply
Faults ==
    Cardinality({ i \in (Len(g.initialMessages.v) + 1)..Len(chatHistory) :
                    chatHistory[i].message # PlainContent })

\* the backend may misbehave MaxFaults times: on any turn of part_000 (at most
\* MaxTurns of them), on the first MaxFaults turns of the ten-turn scripts
FaultHorizon == IF variant = "part_000" THEN MaxTurns ELSE MaxFaults

AllowedOutcomes ==
    IF Faults < MaxFaults /\ turnCount <= FaultHorizon
    THEN Outcomes(g)
    ELSE {PlainOutcome}

\* client.chat settles and the awaiting autoChat continues
BackendAnswers ==
    /\ pc = "Run"
    /\ \E i \in DOMAIN inflight : \E outcome \in AllowedOutcomes :
         Become(resumeChat(variant, g, State, i, outcome))
    /\ UNCHANGED <<variant, file, pc, g, trial>>

Next ==
    \/ LoadSettings
    \/ ValidateSettings
    \/ Start
    \/ TimerFires
    \/ BackendAnswers

Spec == Init /\ [][Next]_vars

Finished == Len(console) > 0 /\ console[Len(console)] = "Finished"

\* the script runs to its end, every timer fires, every backend call settles
Fairness ==
    /\ WF_vars(LoadSettings \/ ValidateSettings \/ Start)
    /\ WF_vars(TimerFires)
    /\ WF_vars(BackendAnswers)

\* the runs followed to their end: every kind of settings file, every script,
\* one initial message, the default window
InitFair ==
    /\ Init
    /\ IsArray(file.settings.initialMessages) =>
         Len(file.settings.initialMessages.v) <= 1
    /\ Nullish(file.settings.chatMaxLength)

SpecFair == InitFair /\ [][Next]_vars /\ Fairness

\* ---- trimChatHistory on its own ------------------------------------------
TrialEntries == { [name |-> n, message |-> <<"t">>] : n \in {"Ann", "Bob"} }

TrialHistories == UNION { [1..n -> TrialEntries] : n \in 0..MaxTrial }

InitTrim ==
    /\ variant = "part_000"
    /\ file = [kind |-> "ENOENT", settings |-> NoGlobals]
    /\ pc = "Trial"
    /\ g = NoGlobals
    /\ chatHistory = <<>>
    /\ turnCount = 0
    /\ isChatting = FALSE
    /\ timers = <<>>
    /\ inflight = <<>>
    /\ sent = <<>>
    /\ answer = NoAnswer
    /\ console = <<>>
    /\ trial \in { [history |-> h, maxLength |-> n, results |-> <<>>] :
                     h \in TrialHistories, n \in (0 - 2)..(MaxTrial + 1) }

\* trim the history, then trim what came out
ApplyTrim ==
    /\ pc = "Trial"
    /\ Len(trial.results) < 2
    /\ trial' = [trial EXCEPT !.results =
                   Append(@, trimChatHistory(IF @ = <<>> THEN trial.history ELSE @[Len(@)],
                                             trial.maxLength))]
    /\ UNCHANGED <<variant, file, pc, g, chatHistory, turnCount, isChatting, timers,
                   inflight, sent, answer, console>>

NextTrim == ApplyTrim

SpecTrim == InitTrim /\ [][NextTrim]_vars

\* =========================================================================
\* Properties
\* =========================================================================
\* the configuration as written in the settings file
Configured == file.settings

SeedLength == Len(Configured.initialMessages.v)

Unset(x) == x.t \in {"undefined", "null"}

NameOf(index) ==
    IF index = 1 THEN Configured.agent1Name.v ELSE Configured.agent2Name.v

\* the system prompt of an agent, empty when the file gives none
PromptOf(index) ==
    LET x == IF index = 1 THEN Configured.agent1System ELSE Configured.agent2System
    IN IF Unset(x) THEN <<>> ELSE x.v

SystemSlot(index) == IF PromptOf(index) = <<>> THEN 0 ELSE 1

ConfiguredMaxTurns == Configured.maxTurns.v

ContextWindowSize ==
    IF Unset(Configured.chatMaxLength) THEN 20 ELSE Configured.chatMaxLength.v

TurnCap == IF variant = "part_000" THEN ConfiguredMaxTurns ELSE 10

ConfiguredHost ==
    IF Unset(Configured.ollamaHost) THEN "http://localhost:11434"
    ELSE Configured.ollamaHost.v

\* the transcript as it stood when the request of turn k was built
TranscriptAt(k) == SubSeq(chatHistory, 1, SeedLength + k - 1)

Max(a, b) == IF a >= b THEN a ELSE b
Min(a, b) == IF a <= b THEN a ELSE b

IsErrorText(text) == text # <<>> /\ text[1] = "(Error: Could not generate response - "

RefusedText ==
    <<"(Error: Could not connect to Ollama server at ", ConfiguredHost,
      ". Is Ollama running?)">>

\* ---- C1 ------------------------------------------------------------------
\* C1: in part_000 the transcript never holds more than seedLength + maxTurns
\* entries, and holds exactly that many once the chat has finished, whatever
\* the backend answered.
C1_TurnBudget ==
    (variant = "part_000" /\ pc = "Run") =>
        /\ Len(chatHistory) <= SeedLength + ConfiguredMaxTurns
        /\ Finished => Len(chatHistory) = SeedLength + ConfiguredMaxTurns

C1_Witness ==
    /\ variant = "part_000" /\ pc = "Run" /\ Finished
    /\ ConfiguredMaxTurns = 3 /\ SeedLength = 2
    /\ \E i \in DOMAIN chatHistory : IsErrorText(chatHistory[i].message)

\* ---- C2 ------------------------------------------------------------------
\* C2: the entry appended by turn k carries the name of the agent turn k was
\* addressed to, and turn k+1 is addressed to the other agent, whatever text
\* turn k produced.
C2_Alternation ==
    pc = "Run" =>
        \A k \in DOMAIN sent :
            /\ sent[k].currentAgentIndex \in {1, 2}
            /\ k < Len(sent) =>
                 sent[k + 1].currentAgentIndex = 3 - sent[k].currentAgentIndex
            /\ SeedLength + k <= Len(chatHistory) =>
                 chatHistory[SeedLength + k].name = NameOf(sent[k].currentAgentIndex)

C2_Witness ==
    /\ pc = "Run" /\ Len(sent) >= 3
    /\ NameOf(1) # NameOf(2)
    /\ chatHistory[SeedLength + 2].message = RefusedText
    /\ chatHistory[SeedLength + 2].name = NameOf(sent[2].currentAgentIndex)

\* ---- C3 ------------------------------------------------------------------
FirstAgent ==
    LET last == Configured.initialMessages.v[SeedLength].name
    IN IF last = Configured.agent1Name.v THEN 2
       ELSE IF last = Configured.agent2Name.v THEN 1
       ELSE 1

AnnBobScenario ==
    /\ variant = "part_000"
    /\ Configured.agent1Name = JStr("Ann") /\ Configured.agent2Name = JStr("Bob")
    /\ SeedLength = 1 /\ Configured.initialMessages.v[1].name = "Ann"
    /\ ConfiguredMaxTurns = 1

\* C3: the first acting agent depends only on the speaker of the last seeded
\* entry, by these rules in this order: agent 2 if it is agent 1's name,
\* agent 1 if it is agent 2's name, agent 1 if it is neither; with Ann/Bob,
\* one seed entry by Ann and maxTurns = 1 the run ends with two entries, the
\* second by Bob.
C3_FirstAgent ==
    pc = "Run" =>
        /\ Len(sent) >= 1 => sent[1].currentAgentIndex = FirstAgent
        /\ (sent = <<>> /\ ~Finished) => timers = <<FirstAgent>>
        /\ (AnnBobScenario /\ Finished) =>
             /\ Len(chatHistory) = 2
             /\ chatHistory[2].name = "Bob"

C3_Witness ==
    /\ pc = "Run" /\ AnnBobScenario /\ Finished
    /\ Len(chatHistory) = 2 /\ chatHistory[2].name = "Bob"

\* ---- C4 ------------------------------------------------------------------
\* C4: in part_000 every request carries at most contextWindowSize messages,
\* the system message included, and when the transcript fits in the window
\* beside the system message it is sent whole, in order, texts unchanged.
\* (While a request is outstanding the transcript is the one it was built on.)
C4_WindowBound ==
    (variant = "part_000" /\ pc = "Run") =>
        \A i \in DOMAIN inflight :
            LET messages == inflight[i].request.messages
                slot == SystemSlot(inflight[i].currentAgentIndex)
            IN /\ Len(messages) <= ContextWindowSize
               /\ Len(chatHistory) <= ContextWindowSize - slot =>
                    /\ Len(messages) = slot + Len(chatHistory)
                    /\ \A j \in DOMAIN chatHistory :
                         messages[slot + j].content = chatHistory[j].message

\* a request that was cut to the window, after an earlier one that was sent whole
C4_Witness ==
    /\ variant = "part_000" /\ pc = "Run" /\ Len(inflight) = 1
    /\ SystemSlot(inflight[1].currentAgentIndex) = 1
    /\ Len(chatHistory) > ContextWindowSize - 1
    /\ Len(inflight[1].request.messages) = ContextWindowSize
    /\ \E k \in DOMAIN sent :
         /\ Len(TranscriptAt(k)) >= 2
         /\ Len(sent[k].request.messages) =
              SystemSlot(sent[k].currentAgentIndex) + Len(TranscriptAt(k))

\* ---- C5 ------------------------------------------------------------------
\* C5: in part_000 and part_001 a transcript entry is sent with role
\* assistant exactly when its speaker is the acting agent's name and with
\* role user otherwise; an entry by a speaker that is neither agent is user
\* in every request.
C5_ViewpointRoles ==
    (variant \in {"part_000", "part_001"} /\ pc = "Run") =>
        \A i \in DOMAIN inflight :
            LET messages == inflight[i].request.messages
                slot == SystemSlot(inflight[i].currentAgentIndex)
                shown == Len(messages) - slot
                acting == NameOf(inflight[i].currentAgentIndex)
            IN \A j \in 1..shown :
                 LET entry == chatHistory[Len(chatHistory) - shown + j]
                     message == messages[slot + j]
                 IN /\ message.content = entry.message
                    /\ message.role \in {"assistant", "user"}
                    /\ message.role = "assistant" <=> entry.name = acting
                    /\ entry.name \notin {NameOf(1), NameOf(2)} => message.role = "user"

\* one entry by an agent, seen as assistant by its author and as user by the
\* other agent, next to a seed-only speaker's entry
C5_Witness ==
    /\ variant = "part_001" /\ pc = "Run" /\ Len(inflight) = 1
    /\ NameOf(1) # NameOf(2)
    /\ chatHistory[1].name = "Op"
    /\ \E k \in DOMAIN sent :
         /\ sent[k].currentAgentIndex # inflight[1].currentAgentIndex
         /\ \E j \in 1..SeedLength :
              /\ chatHistory[j].name = NameOf(inflight[1].currentAgentIndex)
              /\ inflight[1].request.messages[SystemSlot(inflight[1].currentAgentIndex) + j].role
                   = "assistant"
              /\ sent[k].request.messages[SystemSlot(sent[k].currentAgentIndex) + j].role
                   = "user"

\* ---- C6 ------------------------------------------------------------------
ConnectionFailed ==
    /\ answer.kind = "error"
    /\ answer.error.code = JStr("ECONNREFUSED")

\* C6: when the call of turn i fails with a connection error, the entry of
\* turn i is the connection-refused placeholder under the acting agent's
\* name, and the run goes on as after a success: the other agent's call is
\* scheduled, and when it runs it starts turn i+1 if i is below the turn cap
\* and finishes the chat otherwise.
C6_FailureContinues ==
    (pc = "Run" /\ ConnectionFailed) =>
        LET i == Len(chatHistory) - SeedLength
            index == sent[i].currentAgentIndex
        IN /\ i >= 1
           /\ chatHistory[Len(chatHistory)] =
                [name |-> NameOf(index), message |-> RefusedText]
           /\ \/ /\ timers = <<3 - index>> /\ inflight = <<>>
                 /\ turnCount = i /\ Len(sent) = i /\ ~Finished
              \/ /\ i < TurnCap
                 /\ timers = <<>> /\ Len(inflight) = 1
                 /\ turnCount = i + 1 /\ Len(sent) = i + 1
                 /\ sent[i + 1].currentAgentIndex = 3 - index
              \/ /\ i >= TurnCap
                 /\ timers = <<>> /\ inflight = <<>>
                 /\ turnCount = i /\ Len(sent) = i /\ Finished

\* turn 2 is under way after turn 1 failed
C6_Witness ==
    /\ variant = "part_000" /\ pc = "Run" /\ ConnectionFailed
    /\ Len(chatHistory) = SeedLength + 1
    /\ chatHistory[Len(chatHistory)].message = RefusedText
    /\ Len(sent) = 2 /\ Len(inflight) = 1
    /\ sent[2].currentAgentIndex # sent[1].currentAgentIndex

\* ---- C7 ------------------------------------------------------------------
\* C7: at most one backend request is outstanding; a request is outstanding
\* exactly when one more request has been issued than entries appended; and
\* no call of autoChat is scheduled while a request is outstanding.
C7_NoOverlap ==
    /\ Len(inflight) <= 1
    /\ Len(inflight) + Len(timers) <= 1
    /\ pc # "Run" => (inflight = <<>> /\ sent = <<>>)
    /\ pc = "Run" =>
         /\ Len(sent) = (Len(chatHistory) - SeedLength) + Len(inflight)
         /\ \A k \in DOMAIN sent : sent[k].turn = k
         /\ \A i \in DOMAIN inflight : inflight[i] = sent[Len(sent)]

C7_Witness ==
    /\ variant = "main" /\ pc = "Run"
    /\ Len(inflight) = 1 /\ Len(sent) = 3
    /\ Len(chatHistory) = SeedLength + 2

\* ---- C8 ------------------------------------------------------------------
\* C8: in part_000 the request is the system message, if the acting agent has
\* a system prompt (then first, and the only system message), followed by the
\* last max(0, N - s) transcript entries in transcript order, or all of them
\* when there are fewer.
C8_ContextContents ==
    (variant = "part_000" /\ pc = "Run") =>
        \A i \in DOMAIN inflight :
            LET messages == inflight[i].request.messages
                prompt == PromptOf(inflight[i].currentAgentIndex)
                slot == IF prompt = <<>> THEN 0 ELSE 1
                kept == Min(Max(0, ContextWindowSize - slot), Len(chatHistory))
            IN /\ Len(messages) = slot + kept
               /\ slot = 1 => messages[1] = [role |-> "system", content |-> prompt]
               /\ \A j \in 1..kept :
                    /\ messages[slot + j].content =
                         chatHistory[Len(chatHistory) - kept + j].message
                    /\ messages[slot + j].role # "system"

\* window 3, a system prompt, more than three entries: system + the last two
C8_Witness ==
    /\ variant = "part_000" /\ pc = "Run" /\ Len(inflight) = 1
    /\ ContextWindowSize = 3
    /\ SystemSlot(inflight[1].currentAgentIndex) = 1
    /\ Len(chatHistory) >= 4
    /\ Len(inflight[1].request.messages) = 3
    /\ inflight[1].request.messages[2].content = chatHistory[Len(chatHistory) - 1].message
    /\ inflight[1].request.messages[3].content = chatHistory[Len(chatHistory)].message

\* ---- C9 ------------------------------------------------------------------
Lacking(x) == Unset(x) \/ x = JStr("")

LacksRequired ==
    /\ file.kind = "object"
    /\ \/ Lacking(Configured.agent1Name)
       \/ Lacking(Configured.agent2Name)
       \/ Configured.initialMessages.t # "array"
       \/ Configured.initialMessages.v = <<>>

\* C9: settings without agent 1's name, without agent 2's name, or whose
\* initial messages are missing, not a list or empty stop the process with a
\* diagnostic before any turn: no request, no turn counted, no entry.
C9_IncompleteHalts ==
    LacksRequired =>
        /\ pc \in {"Load", "Validate", "Exit"}
        /\ sent = <<>> /\ inflight = <<>> /\ timers = <<>>
        /\ turnCount = 0 /\ chatHistory = <<>>
        /\ console = IF pc = "Exit" THEN <<"SettingsIncomplete">> ELSE <<>>

C9_Witness ==
    /\ LacksRequired /\ pc = "Exit"
    /\ Configured.agent1Name = JStr("Ann") /\ Configured.agent2Name = JStr("Bob")
    /\ Configured.initialMessages = JArr(<<>>)
    /\ console = <<"SettingsIncomplete">>

\* ---- C10 -----------------------------------------------------------------
\* C10: trimChatHistory returns a history no longer than the bound as it is,
\* and trimming its own result with the same bound changes nothing.
C10_TrimIdempotent ==
    /\ (Len(trial.results) >= 1 /\ Len(trial.history) <= trial.maxLength) =>
         trial.results[1] = trial.history
    /\ Len(trial.results) >= 2 => trial.results[2] = trial.results[1]

\* a history that was cut, trimmed again, and one that was short already
C10_Witness ==
    /\ Len(trial.results) = 2
    /\ trial.maxLength = 2 /\ Len(trial.history) = 3
    /\ trial.results[1] = SubSeq(trial.history, 2, 3)
    /\ trial.results[2] = trial.results[1]

\* ---- C11 -----------------------------------------------------------------
LastSeedSpeaker == Configured.initialMessages.v[SeedLength].name

SpeakerIsNoAgent == LastSeedSpeaker \notin {NameOf(1), NameOf(2)}

Told(tag) == \E i \in DOMAIN console : console[i] = tag

\* C11: when the last seeded speaker is neither agent, the fallback
\* diagnostic is the first thing written once the chat is set up, it is
\* written once, it is there before any request exists, and the first
\* request goes to agent 1; when the speaker is one of the agents the
\* diagnostic is never written.
C11_FallbackDiagnostic ==
    pc = "Run" =>
        IF SpeakerIsNoAgent
        THEN /\ console # <<>> /\ console[1] = "Fallback"
             /\ \A i \in DOMAIN console : console[i] = "Fallback" => i = 1
             /\ sent # <<>> => sent[1].currentAgentIndex = 1
             /\ (sent = <<>> /\ ~Finished) => timers = <<1>>
        ELSE ~Told("Fallback")

\* main.mjs between startChat and the first timer: told, nothing sent yet
C11_Witness ==
    /\ variant = "main" /\ pc = "Run" /\ SpeakerIsNoAgent
    /\ console = <<"Fallback">> /\ sent = <<>> /\ timers = <<1>>

\* ---- C12 -----------------------------------------------------------------
Done ==
    /\ Finished /\ turnCount = TurnCap
    /\ inflight = <<>> /\ timers = <<>>
    /\ Len(sent) = TurnCap /\ Len(chatHistory) = SeedLength + TurnCap

\* C12: if every timer fires and every backend call settles, a run whose
\* settings passed validation reaches Finished with turnCount = maxTurns
\* (10 in the fixed scripts), and from then on stays there: nothing is
\* scheduled, nothing is outstanding, no further request is issued.
C12_Terminates == (pc = "Start") ~> []Done

C12_Witness ==
    /\ variant = "main" /\ pc = "Run" /\ Done
    /\ Told("ApiError")

\* ---- C13 -----------------------------------------------------------------
IsPlaceholder(text) ==
    /\ text # <<>>
    /\ text[1] \in {"(Error: Could not connect to Ollama server at ",
                    "(Error: Ollama model '",
                    "(Error: Could not generate response - "}

\* turn i has ended and its call failed
FailedTurn(i) ==
    /\ SeedLength + i <= Len(chatHistory)
    /\ IsPlaceholder(chatHistory[SeedLength + i].message)

\* C13: the k-th request issued is the request of turn k, so no turn has two;
\* as many requests have been issued as turns counted, never more than the
\* turn cap and exactly that many once the chat has finished; the request
\* that follows a failed turn i is the one of turn i+1, to the other agent.
C13_OneRequestPerTurn ==
    pc = "Run" =>
        /\ Len(sent) = turnCount
        /\ Len(sent) <= TurnCap
        /\ Finished => Len(sent) = TurnCap
        /\ \A k \in DOMAIN sent :
             /\ sent[k].turn = k
             /\ (FailedTurn(k) /\ k < Len(sent)) =>
                  /\ sent[k + 1].turn = k + 1
                  /\ sent[k + 1].currentAgentIndex = 3 - sent[k].currentAgentIndex

\* three turns, the second failed, three requests in all
C13_Witness ==
    /\ variant = "part_000" /\ pc = "Run" /\ Finished
    /\ TurnCap = 3 /\ Len(sent) = 3
    /\ FailedTurn(2) /\ ~FailedTurn(1) /\ ~FailedTurn(3)
    /\ sent[3].currentAgentIndex # sent[2].currentAgentIndex

\* ---- C14 -----------------------------------------------------------------
IsPrefix(a, b) == Len(a) <= Len(b) /\ SubSeq(b, 1, Len(a)) = a

\* one step of the transcript
TranscriptStep ==
    /\ pc = "Start" =>
         chatHistory' = Configured.initialMessages.v
    /\ pc = "Run" =>
         /\ IsPrefix(chatHistory, chatHistory')
         /\ chatHistory' # chatHistory =>
              /\ Len(inflight) = 1 /\ inflight' = <<>> /\ sent' = sent
              /\ Len(chatHistory') = Len(chatHistory) + 1
              /\ chatHistory'[Len(chatHistory')].name = inflight[1].currentAgent
         /\ sent' # sent => chatHistory' = chatHistory
    /\ pc \notin {"Start", "Run"} => chatHistory' = chatHistory

\* C14: the transcript starts as the initial messages in their order and
\* keeps them in front; every step leaves the old transcript as a prefix of
\* the new one; it changes only when an outstanding call settles, by one
\* entry at the end under the acting agent's name; a step that builds the
\* window and issues a request leaves it as it was.
C14_AppendOnly ==
    /\ [](pc = "Run" => IsPrefix(Configured.initialMessages.v, chatHistory))
    /\ [][TranscriptStep]_vars

\* a request built from a transcript longer than the window, which is intact
C14_Witness ==
    /\ variant = "part_000" /\ pc = "Run" /\ Len(inflight) = 1
    /\ ContextWindowSize = 1
    /\ Len(inflight[1].request.messages) = 1
    /\ Len(chatHistory) = SeedLength + 2 /\ SeedLength = 2
    /\ IsPrefix(Configured.initialMessages.v, chatHistory)

\* ---- C15 -----------------------------------------------------------------
\* the model named in the settings, "llama2" when they name none
ConfiguredModel ==
    IF Lacking(Configured.ollamaModel) THEN "llama2" ELSE Configured.ollamaModel.v

\* the failure is a refused connection
Refused(error) == error.code = JStr("ECONNREFUSED")

\* the failure's message reports that the configured model could not be pulled
ModelMissing(error) ==
    /\ error.message # Undefined
    /\ \E i \in 1..(Len(error.message.v) - 2) :
         /\ error.message.v[i] = "pull "
         /\ error.message.v[i + 1] = ConfiguredModel
         /\ error.message.v[i + 2] = ": file does not exist"

MissingText ==
    <<"(Error: Ollama model '", ConfiguredModel,
      "' not found. Did you run 'ollama run ", ConfiguredModel, "'?)">>

OtherText(error) ==
    <<"(Error: Could not generate response - ">>
    \o (IF error.message = Undefined THEN <<"undefined">> ELSE error.message.v)
    \o <<")">>

\* C15: when a backend call has failed, the text the gateway handed back,
\* which is the text of the turn's entry, is the could-not-connect string
\* with the configured host if the connection was refused; else the
\* model-not-found string with the configured model if the failure reports
\* the model missing; else the generic string with the failure's message;
\* and the scheduler went on as after any result: one entry under the acting
\* agent's name, the script still running.
C15_ErrorPlaceholders ==
    answer.kind = "error" =>
        LET error == answer.error
            i == Len(chatHistory) - SeedLength
            entry == chatHistory[Len(chatHistory)]
        IN /\ pc = "Run" /\ i >= 1 /\ i <= Len(sent)
           /\ entry.name = NameOf(sent[i].currentAgentIndex)
           /\ entry.message =
                IF Refused(error) THEN RefusedText
                ELSE IF ModelMissing(error) THEN MissingText
                ELSE OtherText(error)
           /\ Cardinality({entry.message} \cap {RefusedText, MissingText, OtherText(error)}) = 1
           /\ Told("ApiError")

\* a refused connection whose message also reports the model missing
C15_Witness ==
    /\ variant = "part_000" /\ pc = "Run" /\ answer.kind = "error"
    /\ Refused(answer.error) /\ ModelMissing(answer.error)
    /\ ConfiguredHost = "http://h:1" /\ ConfiguredModel = "m1"
    /\ chatHistory[Len(chatHistory)].message = RefusedText

\* ---- C16 -----------------------------------------------------------------
\* the window leaves no room for the transcript in the request of turn k
NoRoom(k) == ContextWindowSize - SystemSlot(sent[k].currentAgentIndex) <= 0

\* C16: in part_000, a request built when the window minus the system slot
\* is <= 0 consists of the system message alone, though the transcript is
\* not empty; its turn ends like any other: one entry under the acting
\* agent's name, which is the backend's text and no error placeholder when
\* the backend answered, and the other agent is called or scheduled next (or
\* the chat finishes at the turn cap).
C16_EmptyWindow ==
    (variant = "part_000" /\ pc = "Run") =>
        \A k \in DOMAIN sent :
            NoRoom(k) =>
                LET index == sent[k].currentAgentIndex
                    messages == sent[k].request.messages
                    ended == SeedLength + k <= Len(chatHistory)
                IN /\ SeedLength + k - 1 >= 1
                   /\ messages = <<[role |-> "system", content |-> PromptOf(index)]>>
                   /\ ended =>
                        /\ chatHistory[SeedLength + k].name = NameOf(index)
                        /\ Len(chatHistory) >= SeedLength + k
                        /\ k < Len(sent) => sent[k + 1].currentAgentIndex = 3 - index
                        /\ k = Len(sent) => (timers = <<3 - index>> \/ Finished)
                        /\ (k = Len(sent) /\ answer.kind = "response") =>
                             ~IsPlaceholder(chatHistory[SeedLength + k].message)

\* window 1 and a system prompt: the system message alone was sent, the
\* backend answered, and the other agent's turn is under way
C16_Witness ==
    /\ variant = "part_000" /\ pc = "Run"
    /\ ContextWindowSize = 1 /\ Len(sent) = 2 /\ Len(inflight) = 1
    /\ NoRoom(1) /\ ~NoRoom(2)
    /\ Len(sent[1].request.messages) = 1
    /\ sent[1].request.messages[1].role = "system"
    /\ chatHistory[SeedLength + 1].message = PlainContent

\* ---- C17 -----------------------------------------------------------------
\* C17: in part_000 the options of every request hold a temperature exactly
\* when the settings give one (not missing, not null), then with the value
\* given, and a repeat_penalty exactly when the settings give one, then with
\* the value given, each independently of the other; they hold nothing else,
\* and no key is present with a null or undefined value.
C17_OptionalTuning ==
    (variant = "part_000" /\ pc = "Run") =>
        \A k \in DOMAIN sent :
            LET options == sent[k].request.options
            IN /\ DOMAIN options \subseteq {"temperature", "repeat_penalty"}
               /\ "temperature" \in DOMAIN options <=> ~Unset(Configured.temperature)
               /\ "repeat_penalty" \in DOMAIN options <=> ~Unset(Configured.repeatPenalty)
               /\ "temperature" \in DOMAIN options =>
                    options["temperature"] = Configured.temperature
               /\ "repeat_penalty" \in DOMAIN options =>
                    options["repeat_penalty"] = Configured.repeatPenalty
               /\ \A key \in DOMAIN options : ~Unset(options[key])

\* temperature 0 is sent, the null repeat penalty is left out
C17_Witness ==
    /\ variant = "part_000" /\ pc = "Run" /\ Len(sent) >= 2
    /\ Configured.temperature = JNum(0) /\ Configured.repeatPenalty = Null
    /\ DOMAIN sent[2].request.options = {"temperature"}
    /\ sent[2].request.options["temperature"] = JNum(0)

\* ---- C18 -----------------------------------------------------------------
\* how many transcript entries the request of turn k has room for
Room(k) ==
    IF variant = "part_000"
    THEN ContextWindowSize - SystemSlot(sent[k].currentAgentIndex)
    ELSE SeedLength + k

\* the message of request k that stands for the entry of turn k - d
Echo(k, d) ==
    LET messages == sent[k].request.messages
    IN messages[Len(messages) - d + 1]

\* the placeholder of a failed turn is in the requests of the next two turns
FedBack ==
    \A k \in DOMAIN sent : \A d \in {1, 2} :
        (k - d >= 1 /\ FailedTurn(k - d) /\ Room(k) >= d) =>
            /\ Len(sent[k].request.messages) >= d
            /\ Echo(k, d).content = chatHistory[SeedLength + k - d].message
            /\ Echo(k, d).role = (IF d = 1 THEN "user" ELSE "assistant")
            /\ sent[k].currentAgentIndex =
                 (IF d = 1 THEN 3 - sent[k - d].currentAgentIndex
                  ELSE sent[k - d].currentAgentIndex)

\* C18: in part_000 and part_001 the error placeholder that turn i appended
\* is sent on like any entry: the request of turn i+1, to the other agent,
\* holds it, text unchanged, as its last message with role user if the
\* window has room for one entry, and the request of turn i+2 holds it,
\* text unchanged, as its last but one message with role assistant if the
\* window has room for two.
C18_ErrorFedBack ==
    (variant \in {"part_000", "part_001"} /\ pc = "Run") => FedBack

\* both agents are called "Ann": the request of turn 2 shows the placeholder
\* of turn 1 as an assistant message
C18_Witness ==
    /\ variant = "part_001" /\ pc = "Run" /\ NameOf(1) = NameOf(2)
    /\ Len(sent) = 2 /\ FailedTurn(1)
    /\ sent[2].currentAgentIndex # sent[1].currentAgentIndex
    /\ Echo(2, 1) = [role |-> "assistant", content |-> chatHistory[SeedLength + 1].message]

\* C18 for agents whose names differ: the statement holds
C18_ErrorFedBackDistinct ==
    (variant \in {"part_000", "part_001"} /\ pc = "Run" /\ NameOf(1) # NameOf(2)) =>
        FedBack

\* ---- C19 -----------------------------------------------------------------
Blank(s) == \A i \in DOMAIN s : s[i] \in {" ", "\n", "\t"}

\* t is s without its leading and trailing whitespace
Stripped(s, t) ==
    /\ t = <<>> \/ (~Blank(<<t[1]>>) /\ ~Blank(<<t[Len(t)]>>))
    /\ \E i \in 1..(Len(s) + 1) : \E j \in 0..Len(s) :
         /\ t = SubSeq(s, i, j)
         /\ Blank(SubSeq(s, 1, i - 1))
         /\ Blank(SubSeq(s, j + 1, Len(s)))

ContentAbsent(response) ==
    \/ Unset(response)
    \/ Unset(response.message)
    \/ Unset(response.message.content)

\* C19: in part_000, when a backend call has returned without failure, the
\* turn's entry, under the acting agent's name, has as text the literal
\* fallback string if the response, its message or its content is missing
\* or null, and otherwise the content without leading and trailing
\* whitespace (possibly the empty text); and the run goes on: the other
\* agent is scheduled or called next, or the chat finishes at the turn cap.
C19_ResultExtraction ==
    (variant = "part_000" /\ answer.kind = "response") =>
        LET response == answer.response
            i == Len(chatHistory) - SeedLength
            entry == chatHistory[Len(chatHistory)]
            index == sent[i].currentAgentIndex
        IN /\ pc = "Run" /\ i >= 1
           /\ entry.name = NameOf(index)
           /\ IF ContentAbsent(response)
              THEN entry.message = <<"No valid content received from the Ollama model.">>
              ELSE Stripped(response.message.content.v, entry.message)
           /\ \/ Len(sent) = i /\ timers = <<3 - index>> /\ ~Finished
              \/ Len(sent) = i + 1 /\ sent[i + 1].currentAgentIndex = 3 - index
              \/ Len(sent) = i /\ i = TurnCap /\ Finished

\* padded content came back and was trimmed; the next turn is under way
C19_Witness ==
    /\ variant = "part_000" /\ pc = "Run" /\ answer.kind = "response"
    /\ ~ContentAbsent(answer.response)
    /\ answer.response.message.content.v = <<" ", "ok", "\n">>
    /\ chatHistory[Len(chatHistory)].message = <<"ok">>
    /\ Len(inflight) = 1 /\ Len(sent) = Len(chatHistory) - SeedLength + 1

\* ---- C20 -----------------------------------------------------------------
\* a turn has been started
TurnRuns == pc = "Run" /\ turnCount >= 1

\* C20: whenever a turn has been started, both agents' names are non-empty
\* and agent 1's name differs from agent 2's.
C20_DistinctNames ==
    TurnRuns =>
        /\ agentName(g, 1) # ""
        /\ agentName(g, 2) # ""
        /\ agentName(g, 1) # agentName(g, 2)

\* settings that name both agents "Ann" passed validation and a turn runs
C20_Witness ==
    /\ TurnRuns /\ Len(inflight) = 1
    /\ Configured.agent1Name = JStr("Ann") /\ Configured.agent2Name = JStr("Ann")
    /\ agentName(g, 1) = agentName(g, 2)
    /\ inflight[1].currentAgent = "Ann"

\* ---- C21 -----------------------------------------------------------------
\* main.mjs: the message of request k that stands for transcript entry j
Labelled(k, j) ==
    sent[k].request.messages[SystemSlot(sent[k].currentAgentIndex) + j]

\* C21: in main.mjs, in every request, a transcript entry has role assistant
\* if its speaker is the acting agent and role user if its speaker is anyone
\* else, the other agent included.
C21_MainViewpointRoles ==
    (variant = "main" /\ pc = "Run") =>
        \A k \in DOMAIN sent :
            \A j \in 1..(SeedLength + k - 1) :
                /\ Labelled(k, j).content = chatHistory[j].message
                /\ Labelled(k, j).role =
                     (IF chatHistory[j].name = NameOf(sent[k].currentAgentIndex)
                      THEN "assistant" ELSE "user")

\* Bob's first request shows Ann's initial message as an assistant message
C21_Witness ==
    /\ variant = "main" /\ pc = "Run" /\ Len(sent) >= 1
    /\ NameOf(1) = "Ann" /\ NameOf(2) = "Bob"
    /\ sent[1].currentAgentIndex = 2
    /\ chatHistory[SeedLength].name = "Ann"
    /\ Labelled(1, SeedLength) =
         [role |-> "assistant", content |-> chatHistory[SeedLength].message]

\* ---- C22 -----------------------------------------------------------------
\* the last transcript entry when the request of turn k was built
LastBefore(k) == chatHistory[SeedLength + k - 1]

\* how many transcript entries the request of turn k shows
Shown(k) ==
    Len(sent[k].request.messages) - SystemSlot(sent[k].currentAgentIndex)
    - (IF variant = "main" THEN 1 ELSE 0)

\* C22: when the two names differ, the agent a turn is addressed to is never
\* the speaker of the last transcript entry at that moment, on the first
\* turn and on every later one; and a request that shows at least one
\* transcript entry ends with a message of role user (in part_000 and
\* part_001 that message is the last entry itself).
C22_NoSelfReply ==
    (pc = "Run" /\ NameOf(1) # NameOf(2)) =>
        \A k \in DOMAIN sent :
            LET messages == sent[k].request.messages
            IN /\ LastBefore(k).name # NameOf(sent[k].currentAgentIndex)
               /\ Shown(k) >= 1 =>
                    /\ messages[Len(messages)].role = "user"
                    /\ variant # "main" =>
                         messages[Len(messages)].content = LastBefore(k).message

\* Ann spoke last in the seed, Bob answered, Ann is asked next: both
\* requests end with the other's message as user
C22_Witness ==
    /\ variant = "part_000" /\ pc = "Run" /\ Len(sent) = 2
    /\ NameOf(1) = "Ann" /\ NameOf(2) = "Bob"
    /\ LastBefore(1).name = "Ann" /\ sent[1].currentAgentIndex = 2
    /\ LastBefore(2).name = "Bob" /\ sent[2].currentAgentIndex = 1
    /\ Shown(1) >= 1 /\ Shown(2) >= 1
    /\ sent[2].request.messages[Len(sent[2].request.messages)] =
         [role |-> "user", content |-> LastBefore(2).message]

\* ---- C23 -----------------------------------------------------------------
\* entries appended by turns
Appended == IF pc = "Run" THEN Len(chatHistory) - SeedLength ELSE 0

\* C23: turnCount is never negative and never above the turn cap; as many
\* entries have been appended by turns as turnCount says when no backend
\* request is outstanding, and one fewer while one is outstanding; before
\* the chat is set up nothing is counted, appended or outstanding.
C23_TurnCountBounds ==
    /\ turnCount >= 0
    /\ pc = "Run" => turnCount <= TurnCap
    /\ pc # "Run" => (turnCount = 0 /\ inflight = <<>>)
    /\ Len(inflight) <= 1
    /\ Appended = turnCount - Len(inflight)

\* the last turn of three is counted and its request outstanding
C23_Witness ==
    /\ variant = "part_000" /\ pc = "Run"
    /\ TurnCap = 3 /\ turnCount = 3
    /\ Len(inflight) = 1 /\ Appended = 2

====
